---- MODULE Spec2Model ----
(***************************************************************************)
(* Model of bpkit's vault module (src/src/bpkit/vault.py) and of the CLI   *)
(* command that wraps the password generator                               *)
(* (src/src/bpkit/commands/vault.py).                                      *)
(*                                                                         *)
(* Python strings that the code takes apart (file names, vault references, *)
(* vaultpy's output) are sequences of one-character strings; the password  *)
(* generator's characters are code points.  Texts the code only passes     *)
(* along (process output, message literals) are TLA+ strings.              *)
(***************************************************************************)
EXTENDS Integers, Sequences, FiniteSets, TLC

VARIABLES
    cmd,            \* which entry point this run executes
    pc,             \* position of the core process inside that entry point
    name,           \* secrets(name) / filename argument of encrypt_file, decrypt_file
    fs,             \* the files that exist on disk, path |-> content
    installed,      \* the executables found on the search path
    editor,         \* os.environ["EDITOR"]
    spawned,        \* argv of every child process spawned, in spawn order
    alive,          \* executables whose child process is running
    returncode,     \* executable |-> exit code of its child, NoCode while none
    child_out,      \* executable |-> [stdout, stderr] its child produced
    vault_password, \* secrets(): stripped stdout of vaultpy
    vault_stdout,   \* secrets(): stdout of ansible-vault
    yj_output,      \* secrets(): stdout of yj
    printed,        \* lines printed, each a sequence of text fragments
    outcome,        \* how the run ended: "running", "returned", "exit1", "raised:<exc>"
    retval,         \* the value secrets() returned
    stdout,         \* what the run wrote to its standard output
    opts,           \* generate_pass: the parsed command-line options
    length,         \* generate_password: its four arguments
    use_letters,
    use_digits,
    use_symbols,
    chars,          \* generate_password: the character pool
    password,       \* generate_password: the characters chosen so far
    exc,            \* generate_password: the message of the ValueError raised
    gpg_key_arg,    \* encrypt_file: the gpg_key argument as the caller gave it
    gpg_key,        \* encrypt_file: gpg_key after line 106
    environ,        \* os.environ's BP_GPG_KEY: whether set, and its value
    config_key,     \* blueprint_config.gpg.key
    stdin,          \* the bytes on the run's standard input
    secrets_dir,    \* whether SECRETS_DIR exists
    file_path,      \* encrypt_file: output_path; decrypt_file: file_path
    todo,           \* the invocations still to be made, in order
    log             \* what each finished invocation did

secretsVars == <<editor, vault_password, vault_stdout, yj_output, retval>>

genVars == <<opts, length, use_letters, use_digits, use_symbols, chars, password, exc>>

fileVars == <<gpg_key_arg, gpg_key, environ, config_key, stdin, secrets_dir, file_path>>

sessionVars == <<todo, log>>

vars == <<cmd, pc, name, fs, installed, spawned, alive, returncode, child_out,
          printed, outcome, stdout, secretsVars, genVars, fileVars, sessionVars>>

\* ---------------------------------------------------------------- bounds
MaxNameLen == 4

\* characters file names are drawn from: the four of ".asc" and one other
NameChars == {".", "a", "s", "c", "p"}

Names == UNION {[1..n -> NameChars] : n \in 0..MaxNameLen}

\* ------------------------------------------------------- string helpers
EmptyStr == <<>>

ASC == <<".", "a", "s", "c">>

\* str.replace(old, ""): every non-overlapping occurrence, left to right
RECURSIVE Replace(_, _)
Replace(s, old) ==
    IF Len(s) < Len(old) THEN s
    ELSE IF SubSeq(s, 1, Len(old)) = old
         THEN Replace(SubSeq(s, Len(old) + 1, Len(s)), old)
         ELSE <<Head(s)>> \o Replace(Tail(s), old)

\* ------------------------------------------------- secrets(): path resolver
DirBlueprint == "~/.blueprint/secrets"

\* secret_file of secrets(name)
SecretFile(n) ==
    IF n # EmptyStr
    THEN [dir |-> DirBlueprint, file |-> n \o <<".", "y", "a", "m", "l">>]
    ELSE [dir |-> DirBlueprint,
          file |-> <<"s", "e", "c", "r", "e", "t", "s", ".", "y", "a", "m", "l">>]

\* vault_file of secrets(name): the logical vault reference
VaultFile(n) ==
    IF n # EmptyStr THEN n \o <<".", "v", "a", "u", "l", "t">>
    ELSE <<"v", "a", "u", "l", "t">>

\* vault_file_path of secrets(name)
VaultFilePath(n) == [dir |-> DirBlueprint, file |-> VaultFile(n) \o ASC]

\* the reference handed to vaultpy: vault_file.replace(".asc", "")
VaultpyRef(n) == Replace(VaultFile(n), ASC)

VaultpyArgv(n) == [exe |-> "vaultpy", args |-> <<<<"-", "d">>, VaultpyRef(n)>>]

\* ------------------------------------------------------------ processes
Exes == {"vaultpy", "ansible-vault", "yj", "gpg"}

NoCode == -1

ExitCodes == {0, 1}

NoOut == [stdout |-> "", stderr |-> ""]

\* what each external program may write: vaultpy's stdout is taken apart by
\* strip(), so it is a character sequence; the rest is passed along whole
VaultpyOutputs ==
    {[stdout |-> o, stderr |-> e] :
        o \in {<<"k", "\n">>, <<>>}, e \in {"", "bad key"}}

AnsibleVaultOutputs ==
    {[stdout |-> "a: 1\n", stderr |-> ""],
     [stdout |-> "", stderr |-> "Decryption failed"]}

YjOutputs ==
    {[stdout |-> "{\"a\":1}", stderr |-> ""],
     [stdout |-> "not json", stderr |-> "yaml: bad input"]}

\* a faithful GPG: armored ciphertext carries recipient and plaintext, and
\* decryption gives the plaintext back; bytes are sequences of chunks
GpgEncrypt(key, data) == <<"PGP", key>> \o data

GpgDecrypt(blob) == SubSeq(blob, 3, Len(blob))

GpgFailure == [code |-> 2, out |-> [stdout |-> <<>>, stderr |-> "gpg: failed"]]

\* gpg -e -r <key> --armor, or gpg --quiet -d, on the input it was given
GpgResults(argv) ==
    IF argv.args[1] = "-e"
    THEN {[code |-> 0,
           out |-> [stdout |-> GpgEncrypt(argv.args[3], argv.input), stderr |-> ""]],
          GpgFailure}
    ELSE {[code |-> 0, out |-> [stdout |-> GpgDecrypt(argv.input), stderr |-> ""]],
          GpgFailure}

\* how the child of exe may end
ChildResults(exe) ==
    CASE exe = "vaultpy" -> [code : ExitCodes, out : VaultpyOutputs]
      [] exe = "ansible-vault" -> [code : ExitCodes, out : AnsibleVaultOutputs]
      [] exe = "yj" -> [code : ExitCodes, out : YjOutputs]
      [] exe = "gpg" -> GpgResults(spawned[Len(spawned)])

Whitespace == {" ", "\n", "\t", "\r"}

\* str.strip(): leading and trailing whitespace removed
RECURSIVE Strip(_)
Strip(s) ==
    IF s = <<>> THEN s
    ELSE IF Head(s) \in Whitespace THEN Strip(Tail(s))
    ELSE IF s[Len(s)] \in Whitespace THEN Strip(SubSeq(s, 1, Len(s) - 1))
    ELSE s

\* str(path)
PathStr(p) == <<p.dir, "/">> \o p.file

CodeStr(c) == IF c = 0 THEN "0" ELSE "1"

\* str(CalledProcessError): the command and the exit status, nothing else
CalledProcessErrorStr(e) ==
    <<"Command '[", e.cmd.exe, ", ">> \o e.cmd.args[1] \o <<", ">> \o e.cmd.args[2]
        \o <<"]' returned non-zero exit status ", CodeStr(e.returncode), ".">>

\* json.loads: the value, or JSONDecodeError
JsonValid(text) == text = "{\"a\":1}"

JsonLoads(text) == [a |-> 1]

\* sys.exit(1) after print(line)
ExitWith(line) ==
    /\ printed' = Append(printed, line)
    /\ outcome' = "exit1"
    /\ pc' = "done"

Raise(kind) ==
    /\ outcome' = kind
    /\ pc' = "done"
    /\ UNCHANGED printed

\* subprocess.Popen(argv): the child starts, or FileNotFoundError
Popen(argv) ==
    /\ spawned' = Append(spawned, argv)
    /\ alive' = alive \cup {argv.exe}

\* an external program ends on its own, with any exit code and output
ChildExit ==
    \E exe \in alive :
        \E res \in ChildResults(exe) :
            /\ alive' = alive \ {exe}
            /\ returncode' = [returncode EXCEPT ![exe] = res.code]
            /\ child_out' = [child_out EXCEPT ![exe] = res.out]
            /\ UNCHANGED <<stdout, genVars, fileVars, sessionVars>>
            /\ UNCHANGED <<cmd, pc, name, fs, installed, editor, spawned,
                           vault_password, vault_stdout, yj_output, printed,
                           outcome, retval>>

\* ------------------------------------------------------------- secrets()
\* SecretsValidate with the two existence checks in the other order
SecretsValidate_SecretFirst ==
    /\ cmd = "secrets" /\ pc = "start"
    /\ editor' = "vi"
    /\ IF SecretFile(name) \notin DOMAIN fs
       THEN /\ printed' = Append(printed, <<"Secret file not found: ">>
                                             \o PathStr(SecretFile(name)))
            /\ outcome' = "exit1"
            /\ pc' = "done"
       ELSE IF VaultFilePath(name) \notin DOMAIN fs
       THEN /\ printed' = Append(printed, <<"Vault file not found: ">>
                                             \o PathStr(VaultFilePath(name)))
            /\ outcome' = "exit1"
            /\ pc' = "done"
       ELSE /\ pc' = "fetch_password"
            /\ UNCHANGED <<printed, outcome>>
    /\ UNCHANGED <<stdout, genVars, fileVars, sessionVars>>
    /\ UNCHANGED <<cmd, name, fs, installed, spawned, alive, returncode, child_out,
                   vault_password, vault_stdout, yj_output, retval>>

\* lines 184-206: EDITOR, path resolution, the two existence checks
SecretsValidate ==
    /\ cmd = "secrets" /\ pc = "start"
    /\ editor' = "vi"
    /\ IF VaultFilePath(name) \notin DOMAIN fs
       THEN ExitWith(<<"Vault file not found: ">> \o PathStr(VaultFilePath(name)))
       ELSE IF SecretFile(name) \notin DOMAIN fs
       THEN ExitWith(<<"Secret file not found: ">> \o PathStr(SecretFile(name)))
       ELSE /\ pc' = "fetch_password"
            /\ UNCHANGED <<printed, outcome>>
    /\ UNCHANGED <<stdout, genVars, fileVars, sessionVars>>
    /\ UNCHANGED <<cmd, name, fs, installed, spawned, alive, returncode, child_out,
                   vault_password, vault_stdout, yj_output, retval>>

\* lines 210-214: subprocess.check_output starts vaultpy
SpawnVaultpy ==
    /\ cmd = "secrets" /\ pc = "fetch_password"
    /\ IF "vaultpy" \in installed
       THEN /\ Popen(VaultpyArgv(name))
            /\ pc' = "fetch_wait"
            /\ UNCHANGED <<printed, outcome>>
       ELSE /\ Raise("raised:FileNotFoundError")
            /\ UNCHANGED <<spawned, alive>>
    /\ UNCHANGED <<stdout, genVars, fileVars, sessionVars>>
    /\ UNCHANGED <<cmd, name, fs, installed, editor, returncode, child_out,
                   vault_password, vault_stdout, yj_output, retval>>

\* lines 210-217: check_output returns once vaultpy has ended
CheckOutputReturn ==
    /\ cmd = "secrets" /\ pc = "fetch_wait"
    /\ "vaultpy" \notin alive
    /\ IF returncode["vaultpy"] # 0
       THEN LET e == [cmd |-> VaultpyArgv(name),
                      returncode |-> returncode["vaultpy"],
                      output |-> child_out["vaultpy"].stdout,
                      stderr |-> child_out["vaultpy"].stderr]
            IN /\ ExitWith(<<"Error getting vault password: ">>
                             \o CalledProcessErrorStr(e))
               /\ UNCHANGED vault_password
       ELSE /\ vault_password' = Strip(child_out["vaultpy"].stdout)
            /\ pc' = "spawn_ansible_vault"
            /\ UNCHANGED <<printed, outcome>>
    /\ UNCHANGED <<stdout, genVars, fileVars, sessionVars>>
    /\ UNCHANGED <<cmd, name, fs, installed, editor, spawned, alive, returncode,
                   child_out, vault_stdout, yj_output, retval>>

AnsibleVaultArgv(n) ==
    [exe |-> "ansible-vault",
     args |-> <<"view", SecretFile(n), "--vault-password-file", "/dev/stdin">>]

\* lines 220-232: Popen of ansible-vault; it does not wait
SpawnAnsibleVault ==
    /\ cmd = "secrets" /\ pc = "spawn_ansible_vault"
    /\ IF "ansible-vault" \in installed
       THEN /\ Popen(AnsibleVaultArgv(name))
            /\ pc' = "spawn_yj"
            /\ UNCHANGED <<printed, outcome>>
       ELSE /\ Raise("raised:FileNotFoundError")
            /\ UNCHANGED <<spawned, alive>>
    /\ UNCHANGED <<stdout, genVars, fileVars, sessionVars>>
    /\ UNCHANGED <<cmd, name, fs, installed, editor, returncode, child_out,
                   vault_password, vault_stdout, yj_output, retval>>

YjArgv == [exe |-> "yj", args |-> <<>>]

\* lines 235-241: Popen of yj, before ansible-vault has been waited for
SpawnYj ==
    /\ cmd = "secrets" /\ pc = "spawn_yj"
    /\ IF "yj" \in installed
       THEN /\ Popen(YjArgv)
            /\ pc' = "communicate_ansible_vault"
            /\ UNCHANGED <<printed, outcome>>
       ELSE /\ Raise("raised:FileNotFoundError")
            /\ UNCHANGED <<spawned, alive>>
    /\ UNCHANGED <<stdout, genVars, fileVars, sessionVars>>
    /\ UNCHANGED <<cmd, name, fs, installed, editor, returncode, child_out,
                   vault_password, vault_stdout, yj_output, retval>>

\* lines 244-248: communicate() returns once ansible-vault has ended
CommunicateAnsibleVault ==
    /\ cmd = "secrets" /\ pc = "communicate_ansible_vault"
    /\ "ansible-vault" \notin alive
    /\ vault_stdout' = child_out["ansible-vault"].stdout
    /\ IF returncode["ansible-vault"] # 0
       THEN ExitWith(<<"Error from ansible-vault: ",
                       child_out["ansible-vault"].stderr>>)
       ELSE /\ pc' = "communicate_yj"
            /\ UNCHANGED <<printed, outcome>>
    /\ UNCHANGED <<stdout, genVars, fileVars, sessionVars>>
    /\ UNCHANGED <<cmd, name, fs, installed, editor, spawned, alive, returncode,
                   child_out, vault_password, yj_output, retval>>

\* lines 251-255: communicate() returns once yj has ended
CommunicateYj ==
    /\ cmd = "secrets" /\ pc = "communicate_yj"
    /\ "yj" \notin alive
    /\ yj_output' = child_out["yj"].stdout
    /\ IF returncode["yj"] # 0
       THEN ExitWith(<<"Error from yj: ", child_out["yj"].stderr>>)
       ELSE /\ pc' = "parse"
            /\ UNCHANGED <<printed, outcome>>
    /\ UNCHANGED <<stdout, genVars, fileVars, sessionVars>>
    /\ UNCHANGED <<cmd, name, fs, installed, editor, spawned, alive, returncode,
                   child_out, vault_password, vault_stdout, retval>>

\* line 257: json.loads
ParseJson ==
    /\ cmd = "secrets" /\ pc = "parse"
    /\ IF JsonValid(yj_output)
       THEN /\ retval' = JsonLoads(yj_output)
            /\ outcome' = "returned"
            /\ pc' = "done"
            /\ UNCHANGED printed
       ELSE /\ Raise("raised:JSONDecodeError")
            /\ UNCHANGED retval
    /\ UNCHANGED <<stdout, genVars, fileVars, sessionVars>>
    /\ UNCHANGED <<cmd, name, fs, installed, editor, spawned, alive, returncode,
                   child_out, vault_password, vault_stdout, yj_output>>

NoRetval == [none |-> TRUE]

\* a process about to run one entry point: nothing spawned, nothing printed
Fresh ==
    /\ pc = "start"
    /\ editor = "unset"
    /\ spawned = <<>>
    /\ alive = {}
    /\ returncode = [e \in Exes |-> NoCode]
    /\ child_out = [e \in Exes |-> NoOut]
    /\ vault_password = <<>>
    /\ vault_stdout = ""
    /\ yj_output = ""
    /\ printed = <<>>
    /\ outcome = "running"
    /\ retval = NoRetval
    /\ stdout = <<>>

NoOpts == [length |-> 0, no_letters |-> FALSE, no_digits |-> FALSE, no_symbols |-> FALSE]

\* the password generator's variables while another entry point runs
GenIdle ==
    /\ opts = NoOpts
    /\ length = 0
    /\ use_letters = FALSE
    /\ use_digits = FALSE
    /\ use_symbols = FALSE
    /\ chars = <<>>
    /\ password = <<>>
    /\ exc = ""

NoPath == [dir |-> "", file |-> <<>>]

Unset == [set |-> FALSE, value |-> ""]

\* the GPG path's variables while another entry point runs
FileIdle ==
    /\ gpg_key_arg = ""
    /\ gpg_key = ""
    /\ environ = Unset
    /\ config_key = ""
    /\ stdin = <<>>
    /\ secrets_dir = FALSE
    /\ file_path = NoPath

\* secrets(name) for any name, any presence of its two files, any set of
\* installed programs
InitSecrets ==
    /\ cmd = "secrets"
    /\ name \in Names
    /\ \E present \in SUBSET {VaultFilePath(name), SecretFile(name)} :
           fs = [p \in present |-> "blob"]
    /\ installed \in SUBSET {"vaultpy", "ansible-vault", "yj"}
    /\ Fresh
    /\ GenIdle
    /\ FileIdle
    /\ todo = <<>>
    /\ log = <<>>

NextSecrets ==
    \/ SecretsValidate
    \/ SpawnVaultpy
    \/ CheckOutputReturn
    \/ SpawnAnsibleVault
    \/ SpawnYj
    \/ CommunicateAnsibleVault
    \/ CommunicateYj
    \/ ParseJson
    \/ ChildExit

SpecSecrets == InitSecrets /\ [][NextSecrets]_vars

\* ------------------------------------------------ properties of secrets()
SpawnedExes == {spawned[i].exe : i \in DOMAIN spawned}

\* C1: a stage's process is spawned only after the previous stage's process
\* has exited with code 0: ansible-vault after vaultpy, yj after ansible-vault.
C1_StageOrder ==
    /\ "ansible-vault" \in SpawnedExes => returncode["vaultpy"] = 0
    /\ "yj" \in SpawnedExes => returncode["ansible-vault"] = 0

\* C2: nothing is spawned unless both files exist; a missing vault file ends
\* the run with the vault-file message (whatever the secret file), a missing
\* secret file alone with the secret-file message, the spawn count still zero.
C2_NoSpawnWithoutFiles ==
    LET vaultThere == VaultFilePath(name) \in DOMAIN fs
        secretThere == SecretFile(name) \in DOMAIN fs
    IN /\ ~(vaultThere /\ secretThere) => Len(spawned) = 0
       /\ (pc = "done" /\ ~vaultThere) =>
              /\ outcome = "exit1"
              /\ Len(printed) = 1
              /\ printed[1][1] = "Vault file not found: "
       /\ (pc = "done" /\ vaultThere /\ ~secretThere) =>
              /\ outcome = "exit1"
              /\ Len(printed) = 1
              /\ printed[1][1] = "Secret file not found: "

\* a finished run that had neither file
C2_Witness ==
    /\ pc = "done"
    /\ DOMAIN fs = {}
    /\ outcome = "exit1"
    /\ Len(spawned) = 0

\* C3: when vaultpy exits non-zero with text on stderr, the run fails with the
\* vault-password error and the reported line contains that text.
C3_PasswordErrorShowsStderr ==
    (/\ pc = "done"
     /\ returncode["vaultpy"] = 1
     /\ child_out["vaultpy"].stderr # "") =>
        /\ outcome = "exit1"
        /\ Len(printed) = 1
        /\ printed[1][1] = "Error getting vault password: "
        /\ \E i \in DOMAIN printed[1] : printed[1][i] = child_out["vaultpy"].stderr

\* C4: at most one child process of the core is alive at any moment.
C4_OneChildAtATime == Cardinality(alive) <= 1

\* C9: the reference given to vaultpy is name + ".vault" (or "vault"), the one
\* whose <ref>.asc file was checked for existence.
C9_VaultpyRefIsCheckedRef ==
    \A i \in DOMAIN spawned :
        spawned[i].exe = "vaultpy" =>
            /\ spawned[i].args[2] = VaultFile(name)
            /\ spawned[i].args[2] \o ASC = VaultFilePath(name).file

\* ---------------------------------------------------- generate_password
\* the generator's characters are their code points, as ord() gives them
\* string.ascii_letters: a-z then A-Z
ascii_letters ==
    <<97, 98, 99, 100, 101, 102, 103, 104, 105, 106, 107, 108, 109, 110, 111,
      112, 113, 114, 115, 116, 117, 118, 119, 120, 121, 122, 65, 66, 67, 68,
      69, 70, 71, 72, 73, 74, 75, 76, 77, 78, 79, 80, 81, 82, 83, 84, 85, 86,
      87, 88, 89, 90>>

\* string.digits: 0-9
digits ==
    <<48, 49, 50, 51, 52, 53, 54, 55, 56, 57>>

\* string.punctuation: the 32 ASCII punctuation characters, in code order
punctuation ==
    <<33, 34, 35, 36, 37, 38, 39, 40, 41, 42, 43, 44, 45, 46, 47, 58, 59, 60,
      61, 62, 63, 64, 91, 92, 93, 94, 95, 96, 123, 124, 125, 126>>

MaxPwLen == 2

\* the lengths tried: two below 1, and 1..MaxPwLen
Lengths == (0 - 1)..MaxPwLen

\* BuildChars with the digits appended under the wrong flag
BuildChars_DigitsWithSymbols(letters, digs, symbols) ==
    (IF letters THEN ascii_letters ELSE <<>>)
        \o (IF symbols THEN digits ELSE <<>>)
        \o (IF symbols THEN punctuation ELSE <<>>)

\* lines 81-87: the pool, class by class
BuildChars(letters, digs, symbols) ==
    (IF letters THEN ascii_letters ELSE <<>>)
        \o (IF digs THEN digits ELSE <<>>)
        \o (IF symbols THEN punctuation ELSE <<>>)

MsgLength == "Password length must be at least 1"

MsgPool == "At least one character set must be selected"

\* lines 43-51: the command calls generate_password with the flags negated
GeneratePassCall ==
    /\ cmd = "generate_pass" /\ pc = "start"
    /\ length' = opts.length
    /\ use_letters' = ~opts.no_letters
    /\ use_digits' = ~opts.no_digits
    /\ use_symbols' = ~opts.no_symbols
    /\ pc' = "gp_check"
    /\ UNCHANGED <<opts, chars, password, exc>>
    /\ UNCHANGED <<cmd, name, fs, installed, spawned, alive, returncode, child_out,
                   printed, outcome, stdout, secretsVars, fileVars, sessionVars>>

\* GeneratePasswordChecks with the pool check before the length check
GeneratePasswordChecks_PoolFirst ==
    /\ cmd = "generate_pass" /\ pc = "gp_check"
    /\ chars' = BuildChars(use_letters, use_digits, use_symbols)
    /\ IF chars' = <<>>
       THEN exc' = MsgPool /\ pc' = "gp_raised"
       ELSE IF length < 1
       THEN exc' = MsgLength /\ pc' = "gp_raised"
       ELSE exc' = exc /\ pc' = "gp_loop"
    /\ UNCHANGED <<opts, length, use_letters, use_digits, use_symbols, password>>
    /\ UNCHANGED <<cmd, name, fs, installed, spawned, alive, returncode, child_out,
                   printed, outcome, stdout, secretsVars, fileVars, sessionVars>>

\* lines 76-91: the length check, the pool, the empty-pool check
GeneratePasswordChecks ==
    /\ cmd = "generate_pass" /\ pc = "gp_check"
    /\ IF length < 1
       THEN /\ exc' = MsgLength
            /\ pc' = "gp_raised"
            /\ UNCHANGED chars
       ELSE /\ chars' = BuildChars(use_letters, use_digits, use_symbols)
            /\ IF chars' = <<>>
               THEN exc' = MsgPool /\ pc' = "gp_raised"
               ELSE exc' = exc /\ pc' = "gp_loop"
    /\ UNCHANGED <<opts, length, use_letters, use_digits, use_symbols, password>>
    /\ UNCHANGED <<cmd, name, fs, installed, spawned, alive, returncode, child_out,
                   printed, outcome, stdout, secretsVars, fileVars, sessionVars>>

\* line 94: one secrets.choice(chars), any index of the pool; after the last
\* one, lines 94-95 and line 52: the joined password is returned and echoed
GeneratePasswordChoice ==
    /\ cmd = "generate_pass" /\ pc = "gp_loop"
    /\ Len(password) < length
    /\ \E i \in 1..Len(chars) : password' = Append(password, chars[i])
    /\ IF Len(password') = length
       THEN /\ stdout' = Append(stdout, password')
            /\ outcome' = "returned"
            /\ pc' = "done"
       ELSE UNCHANGED <<stdout, outcome, pc>>
    /\ UNCHANGED <<opts, length, use_letters, use_digits, use_symbols, chars, exc>>
    /\ UNCHANGED <<cmd, name, fs, installed, spawned, alive, returncode,
                   child_out, printed, secretsVars, fileVars, sessionVars>>

\* lines 53-55: ValueError is reported on stderr and the command aborts
GeneratePassAbort ==
    /\ cmd = "generate_pass" /\ pc = "gp_raised"
    /\ printed' = Append(printed, <<"Error: ", exc>>)
    /\ outcome' = "raised:Abort"
    /\ pc' = "done"
    /\ UNCHANGED genVars
    /\ UNCHANGED <<cmd, name, fs, installed, spawned, alive, returncode, child_out,
                   stdout, secretsVars, fileVars, sessionVars>>

\* bp vault gen pass with any length and any combination of the three flags
InitGen ==
    /\ cmd = "generate_pass"
    /\ opts \in [length : Lengths, no_letters : BOOLEAN, no_digits : BOOLEAN,
                 no_symbols : BOOLEAN]
    /\ length = 0
    /\ use_letters = FALSE
    /\ use_digits = FALSE
    /\ use_symbols = FALSE
    /\ chars = <<>>
    /\ password = <<>>
    /\ exc = ""
    /\ name = <<>>
    /\ fs = <<>>
    /\ installed = {}
    /\ Fresh
    /\ FileIdle
    /\ todo = <<>>
    /\ log = <<>>

NextGen ==
    \/ GeneratePassCall
    \/ GeneratePasswordChecks
    \/ GeneratePasswordChoice
    \/ GeneratePassAbort

SpecGen == InitGen /\ [][NextGen]_vars

\* ------------------------------------- properties of generate_password
\* the ASCII classes, by code point
IsLetter(c) == c \in 65..90 \/ c \in 97..122

IsDigit(c) == c \in 48..57

IsPunctuation(c) == c \in 33..47 \/ c \in 58..64 \/ c \in 91..96 \/ c \in 123..126

\* whether c belongs to a class the caller selected
InSelectedClass(c) ==
    \/ ~opts.no_letters /\ IsLetter(c)
    \/ ~opts.no_digits /\ IsDigit(c)
    \/ ~opts.no_symbols /\ IsPunctuation(c)

AllExcluded == opts.no_letters /\ opts.no_digits /\ opts.no_symbols

\* C6: for length >= 1 and at least one class selected, the run returns a
\* password of exactly `length` characters, each from a selected class.
C6_LengthAndClasses ==
    (pc = "done" /\ opts.length >= 1 /\ ~AllExcluded) =>
        /\ outcome = "returned"
        /\ Len(stdout) = 1
        /\ Len(stdout[1]) = opts.length
        /\ \A i \in DOMAIN stdout[1] : InSelectedClass(stdout[1][i])

\* a returned password of at least two characters from a proper part of the
\* three classes
C6_Witness ==
    /\ pc = "done"
    /\ outcome = "returned"
    /\ opts.length >= 2
    /\ opts.no_digits /\ ~opts.no_symbols
    /\ Len(stdout) = 1 /\ Len(stdout[1]) = opts.length

\* C7: length < 1 fails with the invalid-length error whatever the flags;
\* length >= 1 with no class selected fails with the empty-pool error; no
\* password comes out in either case, and no other input fails.
C7_Errors ==
    pc = "done" =>
        /\ opts.length < 1 =>
              /\ outcome = "raised:Abort"
              /\ printed = <<(<<"Error: ", MsgLength>>)>>
              /\ stdout = <<>>
        /\ (opts.length >= 1 /\ AllExcluded) =>
              /\ outcome = "raised:Abort"
              /\ printed = <<(<<"Error: ", MsgPool>>)>>
              /\ stdout = <<>>
        /\ (opts.length >= 1 /\ ~AllExcluded) =>
              /\ outcome = "returned"
              /\ printed = <<>>

\* a finished run with length < 1 and every class excluded
C7_Witness ==
    /\ pc = "done"
    /\ opts.length < 1
    /\ AllExcluded
    /\ outcome = "raised:Abort"

\* ------------------------------------------ encrypt_file / decrypt_file
DirSecrets == "~/.config/blueprint/secrets"

\* the characters of ".asc", as str.rstrip takes its argument
AscChars == {ASC[i] : i \in DOMAIN ASC}

\* RStrip that leaves the name as it is
RStrip_Nothing(s, set) == s

\* str.rstrip(chars): trailing characters are dropped while they are in chars
RECURSIVE RStrip(_, _)
RStrip(s, set) ==
    IF s = <<>> THEN s
    ELSE IF s[Len(s)] \in set THEN RStrip(SubSeq(s, 1, Len(s) - 1), set)
    ELSE s

\* SECRETS_DIR / f"{filename}.asc"
AscPath(filename) == [dir |-> DirSecrets, file |-> filename \o ASC]

\* os.getenv("BP_GPG_KEY", default)
Getenv(default) == IF environ.set THEN environ.value ELSE default

\* user_gpg_key(): user_key, raising GPGKeyNotConfiguredError when it is empty
UserGpgKey == Getenv(config_key)

\* lines 106-115: key resolution, file name check, mkdir, stdin read
EncryptFilePrologue ==
    /\ cmd = "encrypt_file" /\ pc = "start"
    /\ IF gpg_key_arg = "" /\ UserGpgKey = ""
       THEN /\ Raise("raised:GPGKeyNotConfiguredError")
            /\ UNCHANGED <<gpg_key, secrets_dir>>
       ELSE /\ gpg_key' = IF gpg_key_arg # "" THEN gpg_key_arg ELSE UserGpgKey
            /\ IF name = EmptyStr
               THEN /\ ExitWith(<<"Please provide a file to encrypt and the recipient's key identifier.">>)
                    /\ UNCHANGED secrets_dir
               ELSE /\ secrets_dir' = TRUE
                    /\ pc' = "enc_gpg"
                    /\ UNCHANGED <<printed, outcome>>
    /\ UNCHANGED <<gpg_key_arg, environ, config_key, stdin, file_path>>
    /\ UNCHANGED <<cmd, name, fs, installed, spawned, alive, returncode, child_out,
                   stdout, secretsVars, genVars, sessionVars>>

MsgNoGpg == <<"Error: gpg command not found. Please install GnuPG.">>

\* lines 119-126: get_gpg_path, then subprocess.run starts gpg -e
EncryptSpawnGpg ==
    /\ cmd = "encrypt_file" /\ pc = "enc_gpg"
    /\ IF "gpg" \in installed
       THEN /\ Popen([exe |-> "gpg", args |-> <<"-e", "-r", gpg_key, "--armor">>,
                      input |-> stdin])
            /\ pc' = "enc_wait"
            /\ UNCHANGED <<printed, outcome>>
       ELSE /\ ExitWith(MsgNoGpg)
            /\ UNCHANGED <<spawned, alive>>
    /\ UNCHANGED <<cmd, name, fs, installed, returncode, child_out, stdout,
                   secretsVars, genVars, fileVars, sessionVars>>

\* lines 121-135: run() returns once gpg has ended; the ciphertext is written
EncryptRunReturn ==
    /\ cmd = "encrypt_file" /\ pc = "enc_wait"
    /\ "gpg" \notin alive
    /\ IF returncode["gpg"] # 0
       THEN /\ ExitWith(<<"Encryption failed: ", child_out["gpg"].stderr>>)
            /\ UNCHANGED <<fs, file_path>>
       ELSE /\ file_path' = AscPath(name)
            /\ fs' = [p \in DOMAIN fs \cup {file_path'} |->
                         IF p = file_path' THEN child_out["gpg"].stdout ELSE fs[p]]
            /\ printed' = Append(printed,
                                 <<"Encrypted and saved to ">> \o PathStr(file_path'))
            /\ outcome' = "returned"
            /\ pc' = "done"
    /\ UNCHANGED <<gpg_key_arg, gpg_key, environ, config_key, stdin, secrets_dir>>
    /\ UNCHANGED <<cmd, name, installed, spawned, alive, returncode, child_out,
                   stdout, secretsVars, genVars, sessionVars>>

\* lines 148-163: file name check, suffix stripping, existence check, read
DecryptFilePrologue ==
    /\ cmd = "decrypt_file" /\ pc = "start"
    /\ IF name = EmptyStr
       THEN /\ ExitWith(<<"Please provide a file to decrypt.">>)
            /\ UNCHANGED file_path
       ELSE /\ file_path' = AscPath(RStrip(name, AscChars))
            /\ IF file_path' \notin DOMAIN fs
               THEN ExitWith(<<"Error: File not found: ">> \o PathStr(file_path'))
               ELSE /\ pc' = "dec_gpg"
                    /\ UNCHANGED <<printed, outcome>>
    /\ UNCHANGED <<gpg_key_arg, gpg_key, environ, config_key, stdin, secrets_dir>>
    /\ UNCHANGED <<cmd, name, fs, installed, spawned, alive, returncode, child_out,
                   stdout, secretsVars, genVars, sessionVars>>

\* lines 167-169: get_gpg_path, then subprocess.run starts gpg -d
DecryptSpawnGpg ==
    /\ cmd = "decrypt_file" /\ pc = "dec_gpg"
    /\ IF "gpg" \in installed
       THEN /\ Popen([exe |-> "gpg", args |-> <<"--quiet", "-d">>,
                      input |-> fs[file_path]])
            /\ pc' = "dec_wait"
            /\ UNCHANGED <<printed, outcome>>
       ELSE /\ ExitWith(MsgNoGpg)
            /\ UNCHANGED <<spawned, alive>>
    /\ UNCHANGED <<cmd, name, fs, installed, returncode, child_out, stdout,
                   secretsVars, genVars, fileVars, sessionVars>>

\* lines 169-176: run() returns once gpg has ended; the plaintext goes to stdout
DecryptRunReturn ==
    /\ cmd = "decrypt_file" /\ pc = "dec_wait"
    /\ "gpg" \notin alive
    /\ IF returncode["gpg"] # 0
       THEN /\ ExitWith(<<"Decryption failed: ", child_out["gpg"].stderr>>)
            /\ UNCHANGED stdout
       ELSE /\ stdout' = Append(stdout, child_out["gpg"].stdout)
            /\ outcome' = "returned"
            /\ pc' = "done"
            /\ UNCHANGED printed
    /\ UNCHANGED <<cmd, name, fs, installed, spawned, alive, returncode, child_out,
                   secretsVars, genVars, fileVars, sessionVars>>

\* what a finished invocation leaves behind for the ones that follow
LogEntry ==
    [cmd |-> cmd, name |-> name, stdin |-> stdin, file_path |-> file_path,
     spawned |-> spawned, returncode |-> returncode["gpg"], outcome |-> outcome,
     stdout |-> stdout, printed |-> printed]

\* the process has ended; the next invocation, if any, is a new process on
\* the same filesystem, environment and configuration
NextInvocation ==
    /\ pc = "done"
    /\ alive = {}
    /\ log' = Append(log, LogEntry)
    /\ IF todo = <<>>
       THEN /\ pc' = "idle"
            /\ UNCHANGED <<cmd, name, todo, spawned, returncode, child_out, printed,
                           outcome, stdout, file_path, gpg_key>>
       ELSE /\ cmd' = Head(todo).cmd
            /\ name' = Head(todo).name
            /\ todo' = Tail(todo)
            /\ pc' = "start"
            /\ spawned' = <<>>
            /\ returncode' = [e \in Exes |-> NoCode]
            /\ child_out' = [e \in Exes |-> NoOut]
            /\ printed' = <<>>
            /\ outcome' = "running"
            /\ stdout' = <<>>
            /\ file_path' = NoPath
            /\ gpg_key' = ""
    /\ UNCHANGED <<fs, installed, alive, gpg_key_arg, environ, config_key, stdin,
                   secrets_dir, secretsVars, genVars>>

NextEncrypt ==
    \/ EncryptFilePrologue
    \/ EncryptSpawnGpg
    \/ EncryptRunReturn
    \/ ChildExit

NextDecrypt ==
    \/ DecryptFilePrologue
    \/ DecryptSpawnGpg
    \/ DecryptRunReturn

OldBlob == <<"PGP", "OLDKEY", "old">>

Payloads == {<<"hello">>, <<>>}

\* the first k characters of every k up to the length of n, with ".asc"
PrefixFiles(n, ks) == {AscPath(SubSeq(n, 1, k)) : k \in ks}

\* the sets of files present at the start: none, one, or all of the files
\* named by a prefix of n
StartFiles(n) ==
    {{}} \cup {PrefixFiles(n, {k}) : k \in 0..Len(n)}
         \cup {PrefixFiles(n, 0..Len(n))}

\* two invocations in a row on one filesystem: encrypt_file(n, key) then
\* decrypt_file(n), or decrypt_file(n) then decrypt_file(n + ".asc")
InitFiles ==
    /\ name \in Names
    /\ \/ /\ cmd = "encrypt_file"
          /\ todo = <<[cmd |-> "decrypt_file", name |-> name]>>
          /\ stdin \in Payloads
       \/ /\ cmd = "decrypt_file"
          /\ todo = <<[cmd |-> "decrypt_file", name |-> name \o ASC]>>
          /\ stdin = <<>>
    /\ log = <<>>
    /\ \E present \in StartFiles(name) : fs = [p \in present |-> OldBlob]
    /\ secrets_dir = (fs # <<>>)
    /\ installed \in {{}, {"gpg"}}
    /\ gpg_key_arg = "ARGKEY"
    /\ gpg_key = ""
    /\ environ = Unset
    /\ config_key = "CFGKEY"
    /\ file_path = NoPath
    /\ Fresh
    /\ GenIdle

NextFiles ==
    \/ NextEncrypt
    \/ NextDecrypt
    \/ NextInvocation

SpecFiles == InitFiles /\ [][NextFiles]_vars

Environs == {Unset, [set |-> TRUE, value |-> ""], [set |-> TRUE, value |-> "ENVKEY"]}

\* one encrypt_file call under every combination of key argument,
\* BP_GPG_KEY and configured key
InitKey ==
    /\ cmd = "encrypt_file"
    /\ name \in {n \in Names : Len(n) <= 1}
    /\ todo = <<>>
    /\ log = <<>>
    /\ stdin \in Payloads
    /\ \E present \in StartFiles(name) : fs = [p \in present |-> OldBlob]
    /\ secrets_dir \in BOOLEAN
    /\ fs # <<>> => secrets_dir
    /\ installed \in {{}, {"gpg"}}
    /\ gpg_key_arg \in {"", "ARGKEY"}
    /\ gpg_key = ""
    /\ environ \in Environs
    /\ config_key \in {"", "CFGKEY"}
    /\ file_path = NoPath
    /\ Fresh
    /\ GenIdle

SpecKey == InitKey /\ [][NextEncrypt]_vars

\* --------------------------- properties of encrypt_file / decrypt_file
\* C5: after encrypt_file(name, key) succeeded on payload P, decrypt_file(name)
\* reads the file encrypt_file wrote and, when it succeeds, outputs exactly P.
C5_RoundTrip ==
    (/\ Len(log) = 2
     /\ log[1].cmd = "encrypt_file"
     /\ log[1].outcome = "returned"
     /\ log[2].cmd = "decrypt_file"
     /\ log[2].name = log[1].name) =>
        /\ log[2].file_path = log[1].file_path
        /\ log[2].outcome = "returned" => log[2].stdout = <<log[1].stdin>>

\* C8: for non-empty n, decrypt_file(n) and decrypt_file(n + ".asc") check and
\* read the same file, so on one filesystem they do the same: the same
\* path, the same gpg call on the same bytes, and, when gpg ends alike, the
\* same output, messages and exit.
C8_SameTarget ==
    (/\ Len(log) = 2
     /\ log[1].cmd = "decrypt_file"
     /\ log[2].cmd = "decrypt_file"
     /\ log[1].name # EmptyStr
     /\ log[2].name = log[1].name \o ASC) =>
        /\ log[2].file_path = log[1].file_path
        /\ log[2].spawned = log[1].spawned
        /\ log[2].returncode = log[1].returncode =>
              /\ log[2].outcome = log[1].outcome
              /\ log[2].stdout = log[1].stdout
              /\ log[2].printed = log[1].printed

\* both calls found the file and printed its plaintext
C8_Witness ==
    /\ Len(log) = 2
    /\ log[1].cmd = "decrypt_file"
    /\ log[2].cmd = "decrypt_file"
    /\ log[1].name # EmptyStr
    /\ log[2].name = log[1].name \o ASC
    /\ log[1].outcome = "returned"
    /\ log[2].outcome = "returned"
    /\ log[1].stdout = <<(<<"old">>)>>

\* C10: with no key argument, the key is BP_GPG_KEY when present, else the
\* configured key, and resolution fails exactly when neither is present; a
\* non-empty configured key alone rules the failure out.
C10_KeyResolution ==
    LET envPresent == environ.set /\ environ.value # ""
        cfgPresent == config_key # ""
    IN (pc # "start" /\ gpg_key_arg = "") =>
           /\ outcome = "raised:GPGKeyNotConfiguredError"
                  <=> (~envPresent /\ ~cfgPresent)
           /\ outcome # "raised:GPGKeyNotConfiguredError" =>
                  gpg_key = IF envPresent THEN environ.value ELSE config_key

====
